---- MODULE Spec2Model ----
(***************************************************************************)
(* Student Performance Prediction API (src/app.py).                        *)
(*                                                                         *)
(* The process loads a pickled scorer in its lifespan handler, then serves *)
(* three routes: /predict, /analyze and /health.  The handlers are plain   *)
(* "def" routes, so the serving layer runs them concurrently; each request *)
(* in flight is a slot of "inflight" with its own position (pc).           *)
(*                                                                         *)
(* Numbers.  Every quantity of the program is a Python float.  A float is  *)
(* modelled as a record [k, n, d]:                                         *)
(*   k = "fin"   the exact rational n/d (d > 0, lowest terms);             *)
(*   k = "huge"  the finite double 1e308 as an operand (x + small = x,     *)
(*               x + x overflows), or a quotient of it by a small number:  *)
(*               finite and above every threshold of the program;          *)
(*   k = "tiny"  a small number divided by 1e308: finite, positive and     *)
(*               below every positive threshold;                           *)
(*   k = "inf"   +infinity (the result of an overflowing addition);        *)
(*   k = "nan"   not-a-number.                                             *)
(* A division by 0.0 raises; its outcome is the value ZeroDivisionError.   *)
(* The inputs the model draws are doubles on which the program's           *)
(* arithmetic and comparisons agree with exact rational arithmetic.        *)
(***************************************************************************)
EXTENDS Integers, Sequences, FiniteSets, TLC

VARIABLES
    phase,        \* "starting", "serving", "aborted" or "stopped"
    load_outcome, \* what pickle.load did: "pending", "raised" or the object
    best_model,   \* the module's global: "None" or the object loaded
    inflight      \* the requests being served, by slot

vars == <<phase, load_outcome, best_model, inflight>>

\* ------------------------------------------------------------------ floats

Abs(a) == IF a < 0 THEN -a ELSE a

RECURSIVE GCD(_, _)
GCD(a, b) == IF b = 0 THEN a ELSE GCD(b, a % b)

\* the rational n/d (d > 0) in lowest terms
Fin(n, d) ==
    LET g == GCD(Abs(n), d)
    IN  [k |-> "fin", n |-> n \div g, d |-> d \div g]

Huge == [k |-> "huge", n |-> 1, d |-> 1]
Tiny == [k |-> "tiny", n |-> 1, d |-> 1]
Inf  == [k |-> "inf", n |-> 1, d |-> 1]
NaN  == [k |-> "nan", n |-> 0, d |-> 1]

\* the outcome of a division that raises ZeroDivisionError
ZeroDivisionError == [k |-> "ZeroDivisionError", n |-> 0, d |-> 1]

Zero == Fin(0, 1)
One  == Fin(1, 1)

\* x + y for x, y >= 0: 1e308 absorbs a small addend, 1e308 + 1e308 = inf
FAdd(x, y) ==
    IF x.k = "nan" \/ y.k = "nan" THEN NaN
    ELSE IF x.k = "inf" \/ y.k = "inf" THEN Inf
    ELSE IF x.k = "huge" /\ y.k = "huge" THEN Inf
    ELSE IF x.k = "huge" \/ y.k = "huge" THEN Huge
    ELSE IF x.k = "tiny" THEN y
    ELSE IF y.k = "tiny" THEN x
    ELSE Fin(x.n * y.d + y.n * x.d, x.d * y.d)

\* x - y, used on the confidence fields only (all in [0, 1])
FSub(x, y) == Fin(x.n * y.d - y.n * x.d, x.d * y.d)

\* whether a float is 0.0: the one divisor on which Python's "/" raises
IsZero(x) == x.k = "fin" /\ x.n = 0

\* x / y for x >= 0 and y >= 0: Python raises ZeroDivisionError on y = 0.0;
\* every other case returns a float, infinities and NaN included.  The
\* program divides 1e308 only by attempt_count + 1 >= 1, so that quotient
\* stays finite
FDiv(x, y) ==
    IF IsZero(y) THEN ZeroDivisionError
    ELSE IF x.k = "nan" \/ y.k = "nan" THEN NaN
    ELSE IF x.k = "inf" THEN (IF y.k = "inf" THEN NaN ELSE Inf)
    ELSE IF y.k = "inf" THEN Zero
    ELSE IF x.k = "huge" THEN (IF y.k = "huge" THEN One ELSE Huge)
    ELSE IF y.k = "huge" THEN (IF IsZero(x) THEN Zero ELSE Tiny)
    ELSE IF x.k = "tiny" THEN Tiny
    ELSE Fin(x.n * y.d, x.d * y.n)

\* x > t, x < t, x == t for a finite rational t; any comparison with NaN is False
FGt(x, t) ==
    CASE x.k = "fin"  -> x.n * t.d > t.n * x.d
      [] x.k = "huge" -> TRUE
      [] x.k = "inf"  -> TRUE
      [] x.k = "tiny" -> t.n <= 0
      [] OTHER        -> FALSE

FLt(x, t) ==
    CASE x.k = "fin"  -> x.n * t.d < t.n * x.d
      [] x.k = "tiny" -> t.n > 0
      [] OTHER        -> FALSE

FEq(x, t) == x.k = "fin" /\ x.n * t.d = t.n * x.d

FGe(x, t) == FGt(x, t) \/ FEq(x, t)
FLe(x, t) == FLt(x, t) \/ FEq(x, t)

\* math.isfinite
IsFinite(x) == x.k \in {"fin", "huge", "tiny"}

\* ------------------------------------------------------- UserInput (model)

\* the Field(...) constraints of UserInput: ge=0 on five fields, ge=0 and
\* le=1 on the four confidence fields
ValidInput(d) ==
    /\ FGe(d.hint_count, Zero)
    /\ FGe(d.bottom_hint, Zero)
    /\ FGe(d.attempt_count, Zero)
    /\ FGe(d.ms_first_response, Zero)
    /\ FGe(d.duration, Zero)
    /\ FGe(d.avg_conf_frustrated, Zero) /\ FLe(d.avg_conf_frustrated, One)
    /\ FGe(d.avg_conf_confused, Zero) /\ FLe(d.avg_conf_confused, One)
    /\ FGe(d.avg_conf_concentrating, Zero) /\ FLe(d.avg_conf_concentrating, One)
    /\ FGe(d.avg_conf_bored, Zero) /\ FLe(d.avg_conf_bored, One)

action_count(d) == FAdd(d.attempt_count, d.hint_count)

action_level(d) ==
    IF FEq(action_count(d), Zero) THEN 0
    ELSE IF FEq(action_count(d), One) THEN 1
    ELSE 2

\* the three divisors of the computed fields
attempts_without_offset(d) == d.attempt_count

attempts_plus_one(d) == FAdd(d.attempt_count, One)
first_response_plus_one(d) == FAdd(d.ms_first_response, One)
bored_plus_epsilon(d) == FAdd(d.avg_conf_bored, Fin(1, 1000000))

hint_dependency(d) == FDiv(d.hint_count, attempts_plus_one(d))

response_speed(d) == FDiv(One, first_response_plus_one(d))

confidence_balance(d) ==
    FSub(FSub(d.avg_conf_concentrating, d.avg_conf_frustrated), d.avg_conf_confused)

engagement_ratio(d) == FDiv(d.avg_conf_concentrating, bored_plus_epsilon(d))

efficiency_indicator(d) == FDiv(action_count(d), attempts_plus_one(d))

\* ------------------------------------------- performance categorization

\* categorize_student_performance with the last test written "<="
categorize_closed_at_090(correctness_score) ==
    IF FLt(correctness_score, Fin(30, 100))
    THEN <<0, "Poor", "Needs immediate intervention and support">>
    ELSE IF FLt(correctness_score, Fin(45, 100))
    THEN <<1, "Weak", "Requires additional practice and guidance">>
    ELSE IF FLt(correctness_score, Fin(60, 100))
    THEN <<2, "Below Average", "Shows potential but needs improvement">>
    ELSE IF FLt(correctness_score, Fin(75, 100))
    THEN <<3, "Average", "Solid understanding with room to grow">>
    ELSE IF FLe(correctness_score, Fin(90, 100))
    THEN <<4, "Strong", "Excellent performance and comprehension">>
    ELSE <<5, "Outstanding", "Exceptional mastery of the material">>

\* (ordinal, name, description); the icon of the source tuple is left out
categorize_student_performance(correctness_score) ==
    IF FLt(correctness_score, Fin(30, 100))
    THEN <<0, "Poor", "Needs immediate intervention and support">>
    ELSE IF FLt(correctness_score, Fin(45, 100))
    THEN <<1, "Weak", "Requires additional practice and guidance">>
    ELSE IF FLt(correctness_score, Fin(60, 100))
    THEN <<2, "Below Average", "Shows potential but needs improvement">>
    ELSE IF FLt(correctness_score, Fin(75, 100))
    THEN <<3, "Average", "Solid understanding with room to grow">>
    ELSE IF FLt(correctness_score, Fin(90, 100))
    THEN <<4, "Strong", "Excellent performance and comprehension">>
    ELSE <<5, "Outstanding", "Exceptional mastery of the material">>

recommend_learning_material(category_number) ==
    CASE category_number = 0 -> "Basics tutorial video + guided beginner-level exercises."
      [] category_number = 1 -> "Visual explanation content + step-by-step practice problems."
      [] category_number = 2 -> "Practice exercises with hints enabled + instant feedback."
      [] category_number = 3 -> "Standard module content + end-of-lesson quiz."
      [] category_number = 4 -> "Advanced challenge problems + peer group discussion tasks."
      [] category_number = 5 -> "Project-based learning module + opportunity to mentor peers."
      [] OTHER               -> "Keep learning and practicing regularly."

generate_feedback_message(category_number) ==
    CASE category_number = 0 -> "It's okay to struggle. Let's review the basics together."
      [] category_number = 1 -> "You're making progress. Focus on the foundation."
      [] category_number = 2 -> "You've got potential. A little more consistent effort will go a long way!"
      [] category_number = 3 -> "Nice work! You're on track."
      [] category_number = 4 -> "Great job! You've developed a solid understanding."
      [] category_number = 5 -> "Outstanding! You've truly mastered the topic."
      [] OTHER               -> "Keep pushing forward"

\* ----------------------------------------------------------- learner profile

\* generate_learner_profile with the "Confused Learner" rule tested first
profile_confused_first(data) ==
    LET balance    == confidence_balance(data)
        efficiency == efficiency_indicator(data)
        dependency == hint_dependency(data)
    IN  IF /\ FGt(data.hint_count, Fin(6, 1)) /\ FGt(data.avg_conf_confused, Fin(3, 10))
           /\ FGt(data.bottom_hint, Fin(5, 1)) /\ FLt(balance, Fin(4, 10))
        THEN "Confused Learner"
        ELSE IF /\ FLt(data.duration, Fin(1800, 1)) /\ FLt(data.attempt_count, Fin(3, 1))
                /\ FLt(data.avg_conf_concentrating, Fin(5, 10))
                /\ FGt(data.avg_conf_frustrated, Fin(3, 10))
        THEN "Fast but Careless"
        ELSE IF /\ FGt(data.duration, Fin(1800, 1)) /\ FLt(data.hint_count, Fin(5, 1))
                /\ FGt(data.avg_conf_concentrating, Fin(6, 10))
                /\ FGt(efficiency, Fin(6, 10))
        THEN "Slow and Careful"
        ELSE IF /\ FGt(data.avg_conf_concentrating, Fin(6, 10)) /\ FGt(balance, Fin(6, 10))
                /\ FLt(dependency, Fin(3, 10)) /\ FGt(efficiency, Fin(6, 10))
        THEN "Focused Performer"
        ELSE "General Learner"

generate_learner_profile(data) ==
    LET duration           == data.duration
        attempt_count      == data.attempt_count
        concentrating      == data.avg_conf_concentrating
        frustrated         == data.avg_conf_frustrated
        confused           == data.avg_conf_confused
        bottom_hint        == data.bottom_hint
        balance            == confidence_balance(data)
        efficiency         == efficiency_indicator(data)
        hint_count         == data.hint_count
        dependency         == hint_dependency(data)
    IN  IF /\ FLt(duration, Fin(1800, 1)) /\ FLt(attempt_count, Fin(3, 1))
           /\ FLt(concentrating, Fin(5, 10)) /\ FGt(frustrated, Fin(3, 10))
        THEN "Fast but Careless"
        ELSE IF /\ FGt(duration, Fin(1800, 1)) /\ FLt(hint_count, Fin(5, 1))
                /\ FGt(concentrating, Fin(6, 10)) /\ FGt(efficiency, Fin(6, 10))
        THEN "Slow and Careful"
        ELSE IF /\ FGt(hint_count, Fin(6, 1)) /\ FGt(confused, Fin(3, 10))
                /\ FGt(bottom_hint, Fin(5, 1)) /\ FLt(balance, Fin(4, 10))
        THEN "Confused Learner"
        ELSE IF /\ FGt(concentrating, Fin(6, 10)) /\ FGt(balance, Fin(6, 10))
                /\ FLt(dependency, Fin(3, 10)) /\ FGt(efficiency, Fin(6, 10))
        THEN "Focused Performer"
        ELSE "General Learner"

\* ---------------------------------------------------------- behavior tags

classify_engagement(ratio) ==
    IF FGt(ratio, Fin(2, 1)) THEN "High"
    ELSE IF FGt(ratio, Fin(1, 1)) THEN "Moderate"
    ELSE "Low"

classify_hint_dependency(dep) ==
    IF FGt(dep, Fin(7, 10)) THEN "High"
    ELSE IF FGt(dep, Fin(3, 10)) THEN "Moderate"
    ELSE "Low"

\* classify_efficiency with ">=" for ">"
classify_efficiency_inclusive(val) ==
    IF FGe(val, Fin(1, 1)) THEN "High"
    ELSE IF FGe(val, Fin(5, 10)) THEN "Moderate"
    ELSE "Low"

classify_efficiency(val) ==
    IF FGt(val, Fin(1, 1)) THEN "High"
    ELSE IF FGt(val, Fin(5, 10)) THEN "Moderate"
    ELSE "Low"

classify_response_speed(speed) ==
    IF FGt(speed, Fin(5, 100)) THEN "Fast"
    ELSE IF FGt(speed, Fin(1, 100)) THEN "Moderate"
    ELSE "Slow"

classify_confidence(balance) ==
    IF FGt(balance, Fin(2, 10)) THEN "Positive"
    ELSE IF FGt(balance, Fin(-2, 10)) THEN "Neutral"
    ELSE "Negative"

classify_persistence(attempts) ==
    IF FGt(attempts, Fin(5, 1)) THEN "High"
    ELSE IF FGt(attempts, Fin(2, 1)) THEN "Moderate"
    ELSE "Low"

classify_activity(actions) ==
    IF FEq(actions, Fin(0, 1)) THEN "None"
    ELSE IF FEq(actions, Fin(1, 1)) THEN "Minimal"
    ELSE "Active"

\* ------------------------------------------------------------- responses

NoContent == [kind |-> "none"]

\* JSONResponse(status_code=200, content=...)
Ok(content) == [status |-> 200, detail |-> "", cause |-> "", content |-> content]

\* HTTPException(status_code=500, detail="Model not loaded")
ModelNotLoaded ==
    [status |-> 500, detail |-> "Model not loaded", cause |-> "", content |-> NoContent]

\* HTTPException(status_code=500, detail=f"Prediction failed: {str(e)}")
PredictionFailed(e) ==
    [status |-> 500, detail |-> "Prediction failed: ", cause |-> e, content |-> NoContent]

\* the serving layer's answer to a request body that UserInput rejects
ValidationError ==
    [status |-> 422, detail |-> "validation error", cause |-> "", content |-> NoContent]

\* the serving layer's answer to an exception that leaves a handler
InternalServerError(e) ==
    [status |-> 500, detail |-> "Internal Server Error", cause |-> e, content |-> NoContent]

NoResponse == [status |-> 0, detail |-> "", cause |-> "", content |-> NoContent]

\* JSONResponse renders with json.dumps(..., allow_nan=False): a float that is
\* infinite or NaN raises ValueError
OutOfRange == "Out of range float values are not JSON compliant"

\* a computed field whose division raised
DivisionRaises(data) ==
    \/ hint_dependency(data).k = "ZeroDivisionError"
    \/ response_speed(data).k = "ZeroDivisionError"
    \/ engagement_ratio(data).k = "ZeroDivisionError"
    \/ efficiency_indicator(data).k = "ZeroDivisionError"

\* ------------------------------------------------------------- /predict

\* predict_content with persistence classified from action_count
predict_content_persistence_of_actions(data, predicted) ==
    LET category == categorize_student_performance(predicted)
        category_num == category[1]
    IN  [ kind |-> "prediction",
          prediction |->
            [ correctness_score    |-> predicted,
              category_number      |-> category_num,
              performance_category |-> category[2],
              description          |-> category[3] ],
          learner_profile |-> generate_learner_profile(data),
          behaviors |->
            [ engagement         |-> classify_engagement(engagement_ratio(data)),
              hint_dependency    |-> classify_hint_dependency(hint_dependency(data)),
              efficiency         |-> classify_efficiency(efficiency_indicator(data)),
              response_speed     |-> classify_response_speed(response_speed(data)),
              confidence_balance |-> classify_confidence(confidence_balance(data)),
              persistence        |-> classify_persistence(action_count(data)),
              overall_activity   |-> classify_activity(action_count(data)) ],
          recommendations |->
            [ learning_material |-> recommend_learning_material(category_num),
              feedback_message  |-> generate_feedback_message(category_num) ],
          raw_metrics |->
            [ action_count         |-> action_count(data),
              hint_dependency      |-> hint_dependency(data),
              response_speed       |-> response_speed(data),
              confidence_balance   |-> confidence_balance(data),
              engagement_ratio     |-> engagement_ratio(data),
              efficiency_indicator |-> efficiency_indicator(data) ] ]

\* the response dict of predicted_correctness, from the scorer's value
predict_content(data, predicted) ==
    LET category == categorize_student_performance(predicted)
        category_num == category[1]
    IN  [ kind |-> "prediction",
          prediction |->
            [ correctness_score    |-> predicted,
              category_number      |-> category_num,
              performance_category |-> category[2],
              description          |-> category[3] ],
          learner_profile |-> generate_learner_profile(data),
          behaviors |->
            [ engagement         |-> classify_engagement(engagement_ratio(data)),
              hint_dependency    |-> classify_hint_dependency(hint_dependency(data)),
              efficiency         |-> classify_efficiency(efficiency_indicator(data)),
              response_speed     |-> classify_response_speed(response_speed(data)),
              confidence_balance |-> classify_confidence(confidence_balance(data)),
              persistence        |-> classify_persistence(data.attempt_count),
              overall_activity   |-> classify_activity(action_count(data)) ],
          recommendations |->
            [ learning_material |-> recommend_learning_material(category_num),
              feedback_message  |-> generate_feedback_message(category_num) ],
          raw_metrics |->
            [ action_count         |-> action_count(data),
              hint_dependency      |-> hint_dependency(data),
              response_speed       |-> response_speed(data),
              confidence_balance   |-> confidence_balance(data),
              engagement_ratio     |-> engagement_ratio(data),
              efficiency_indicator |-> efficiency_indicator(data) ] ]

\* predict_assemble with the response rendered after the try block
predict_assemble_uncaught(data, predicted) ==
    LET response == predict_content(data, predicted)
        m == response.raw_metrics
    IN  IF /\ IsFinite(response.prediction.correctness_score)
           /\ IsFinite(m.action_count) /\ IsFinite(m.hint_dependency)
           /\ IsFinite(m.response_speed) /\ IsFinite(m.confidence_balance)
           /\ IsFinite(m.engagement_ratio) /\ IsFinite(m.efficiency_indicator)
        THEN Ok(response)
        ELSE InternalServerError(OutOfRange)

\* the body of the try block after the scorer returned: build the response and
\* render it; an exception on the way is caught and reported as
\* "Prediction failed"
predict_assemble(data, predicted) ==
    LET response == predict_content(data, predicted)
        m == response.raw_metrics
    IN  IF DivisionRaises(data)
        THEN PredictionFailed("float division by zero")
        ELSE IF /\ IsFinite(response.prediction.correctness_score)
                /\ IsFinite(m.action_count) /\ IsFinite(m.hint_dependency)
                /\ IsFinite(m.response_speed) /\ IsFinite(m.confidence_balance)
                /\ IsFinite(m.engagement_ratio) /\ IsFinite(m.efficiency_indicator)
        THEN Ok(response)
        ELSE PredictionFailed(OutOfRange)

\* ------------------------------------------------------------- /analyze

analyze_content(data) ==
    [ kind |-> "analysis",
      learner_profile |-> generate_learner_profile(data),
      behaviors |->
        [ engagement         |-> classify_engagement(engagement_ratio(data)),
          hint_dependency    |-> classify_hint_dependency(hint_dependency(data)),
          efficiency         |-> classify_efficiency(efficiency_indicator(data)),
          response_speed     |-> classify_response_speed(response_speed(data)),
          confidence_balance |-> classify_confidence(confidence_balance(data)),
          persistence        |-> classify_persistence(data.attempt_count),
          overall_activity   |-> classify_activity(action_count(data)) ],
      computed_metrics |->
        [ action_count         |-> action_count(data),
          hint_dependency      |-> hint_dependency(data),
          response_speed       |-> response_speed(data),
          confidence_balance   |-> confidence_balance(data),
          engagement_ratio     |-> engagement_ratio(data),
          efficiency_indicator |-> efficiency_indicator(data) ] ]

\* the whole handler: nothing catches an exception here, so one that is raised
\* leaves the handler
analyze_student_behavior(data) ==
    LET response == analyze_content(data)
        m == response.computed_metrics
    IN  IF DivisionRaises(data)
        THEN InternalServerError("float division by zero")
        ELSE IF /\ IsFinite(m.action_count) /\ IsFinite(m.hint_dependency)
                /\ IsFinite(m.response_speed) /\ IsFinite(m.confidence_balance)
                /\ IsFinite(m.engagement_ratio) /\ IsFinite(m.efficiency_indicator)
        THEN Ok(response)
        ELSE InternalServerError(OutOfRange)

\* -------------------------------------------------------------- /health

health_check(model) ==
    Ok([kind |-> "health", status |-> "healthy", model_loaded |-> model # "None"])

\* --------------------------------------------------------------- inputs

\* a request body, field by field
Data(hint, bottom, attempt, ms, dur, frustrated, confused, concentrating, bored) ==
    [ hint_count             |-> hint,
      bottom_hint            |-> bottom,
      attempt_count          |-> attempt,
      ms_first_response      |-> ms,
      duration               |-> dur,
      avg_conf_frustrated    |-> frustrated,
      avg_conf_confused      |-> confused,
      avg_conf_concentrating |-> concentrating,
      avg_conf_bored         |-> bored ]

NoData == Data(Zero, Zero, Zero, Zero, Zero, Zero, Zero, Zero, Zero)

\* the values each field is drawn from: both sides of, and exactly on, every
\* threshold the field (or a feature derived from it) is compared with
HintValues     == {Fin(0, 1), Fin(1, 1), Fin(3, 1), Fin(5, 1), Fin(6, 1), Fin(7, 1), Huge}
AttemptValues  == {Fin(0, 1), Fin(1, 1), Fin(2, 1), Fin(3, 1), Fin(5, 1), Fin(6, 1), Fin(9, 1), Huge}
BottomValues   == {Fin(5, 1), Fin(6, 1)}
MsValues       == {Fin(0, 1), Fin(19, 1), Fin(99, 1), Huge}
DurationValues == {Fin(1000, 1), Fin(1800, 1), Fin(2000, 1)}
ConcentratingValues == {Fin(20, 100), Fin(25, 100), Fin(50, 100), Fin(60, 100), Fin(75, 100)}
FrustratedValues    == {Fin(0, 100), Fin(30, 100), Fin(50, 100)}
ConfusedValues      == {Fin(0, 100), Fin(30, 100), Fin(50, 100)}
BoredValues         == {Fin(0, 100), Fin(25, 100), Fin(50, 100), Fin(100, 100)}

\* bodies UserInput rejects: a negative count, a confidence above 1
InvalidInputs ==
    { Data(Fin(-1, 1), Zero, One, Fin(500, 1), Fin(1000, 1), Zero, Zero, Fin(1, 2), Zero),
      Data(Zero, Zero, One, Fin(500, 1), Fin(1000, 1), Zero, Zero, Fin(1, 2), Fin(3, 2)) }

\* a "Fast but Careless" student with one action
TypicalInput ==
    Data(Zero, Zero, One, Fin(500, 1), Fin(1000, 1),
         Fin(5, 10), Fin(1, 10), Fin(2, 10), Fin(1, 10))

\* a "Focused Performer"
FocusedInput ==
    Data(Zero, Zero, Fin(3, 1), Fin(9, 1), Fin(1000, 1),
         Zero, Zero, Fin(75, 100), Fin(25, 100))

\* 1e308 hints and 1e308 attempts: their sum overflows
OverflowInput ==
    Data(Huge, Zero, Huge, Fin(500, 1), Fin(1000, 1),
         Fin(5, 10), Fin(1, 10), Fin(2, 10), Fin(1, 10))

ServerInputs == {TypicalInput, FocusedInput, OverflowInput} \cup InvalidInputs

\* what a call of best_model.predict(input_df)[0] can do: return a float (NaN
\* included) or raise
NoOutcome == [k |-> "none", v |-> NaN]
Return(v) == [k |-> "return", v |-> v]
Raise     == [k |-> "raise", v |-> NaN]

ServerOutcomes == {Return(Fin(90, 100)), Return(Fin(29, 100)), Return(NaN), Raise}

\* every score from -0.10 upwards in steps of 0.01, past 1.0
ScoreSteps == 120
Scores == {Fin(n - 10, 100) : n \in 0..ScoreSteps}
ScoreOutcomes == {Return(v) : v \in Scores} \cup {Return(NaN), Raise}

\* the objects the model file can unpickle to
PickleObjects == {"None", "Scorer"}

\* ---------------------------------------------------------------- state

\* requests served at the same time
MaxInFlight == 2
Slots == 1..MaxInFlight

Request(op, data) ==
    [op |-> op, data |-> data, pc |-> "received", scored |-> NoOutcome, resp |-> NoResponse]

Idle == [op |-> "idle", data |-> NoData, pc |-> "idle", scored |-> NoOutcome, resp |-> NoResponse]

Requests ==
    {Request(op, d) : op \in {"predict", "analyze"}, d \in ServerInputs}
        \cup {Request("health", NoData)}

Done(s, response) ==
    inflight' = [inflight EXCEPT ![s].pc = "done", ![s].resp = response]

Goto(s, pc) ==
    inflight' = [inflight EXCEPT ![s].pc = pc]

\* the module is imported: best_model = None, nothing served yet
Init ==
    /\ phase = "starting"
    /\ load_outcome = "pending"
    /\ best_model = "None"
    /\ inflight = [s \in Slots |-> Idle]

\* --------------------------------------------------------------- lifespan

\* pickle.load returns the object of the model file
Startup(obj) ==
    /\ phase = "starting"
    /\ load_outcome' = obj
    /\ best_model' = obj
    /\ phase' = "serving"
    /\ UNCHANGED inflight

\* StartupFails logging the error and serving without a model
StartupFailsDegrades ==
    /\ phase = "starting"
    /\ load_outcome' = "raised"
    /\ phase' = "serving"
    /\ UNCHANGED <<best_model, inflight>>

\* open or pickle.load raises: RuntimeError leaves lifespan, the process
\* never serves
StartupFails ==
    /\ phase = "starting"
    /\ load_outcome' = "raised"
    /\ phase' = "aborted"
    /\ UNCHANGED <<best_model, inflight>>

\* the code after yield; the serving layer runs it once no request is left
Shutdown ==
    /\ phase = "serving"
    /\ \A s \in Slots : inflight[s] = Idle
    /\ phase' = "stopped"
    /\ UNCHANGED <<load_outcome, best_model, inflight>>

\* --------------------------------------------------------------- requests

Arrive(s, r) ==
    /\ phase = "serving"
    /\ inflight[s] = Idle
    /\ inflight' = [inflight EXCEPT ![s] = r]
    /\ UNCHANGED <<phase, load_outcome, best_model>>

\* UserInput(**body): a body out of bounds never reaches the handler
Validate(s) ==
    /\ inflight[s].pc = "received"
    /\ inflight[s].op \in {"predict", "analyze"}
    /\ IF ValidInput(inflight[s].data)
       THEN Goto(s, "handler")
       ELSE Done(s, ValidationError)
    /\ UNCHANGED <<phase, load_outcome, best_model>>

\* PredictBegin without the test of best_model
PredictBeginUnchecked(s) ==
    /\ inflight[s].pc = "handler"
    /\ inflight[s].op = "predict"
    /\ Goto(s, "scoring")
    /\ UNCHANGED <<phase, load_outcome, best_model>>

\* predicted_correctness up to the scorer call: the frame is built (every
\* computed field is read, outside the try block), then best_model is tested
PredictBegin(s) ==
    /\ inflight[s].pc = "handler"
    /\ inflight[s].op = "predict"
    /\ IF DivisionRaises(inflight[s].data)
       THEN Done(s, InternalServerError("float division by zero"))
       ELSE IF best_model = "None"
       THEN Done(s, ModelNotLoaded)
       ELSE Goto(s, "scoring")
    /\ UNCHANGED <<phase, load_outcome, best_model>>

\* PredictScore dropping the model when the scorer raises
PredictScoreDropsModel(s, outcomes) ==
    /\ inflight[s].pc = "scoring"
    /\ best_model # "None"
    /\ \E o \in outcomes :
         /\ inflight' = [inflight EXCEPT
                ![s].scored = o,
                ![s].pc = IF o.k = "raise" THEN "done" ELSE "assemble",
                ![s].resp = IF o.k = "raise"
                            THEN PredictionFailed("scorer raised")
                            ELSE NoResponse]
         /\ best_model' = IF o.k = "raise" THEN "None" ELSE best_model
    /\ UNCHANGED <<phase, load_outcome>>

\* best_model.predict(input_df)[0], inside the try block
PredictScore(s, outcomes) ==
    /\ inflight[s].pc = "scoring"
    /\ IF best_model = "None"
       THEN Done(s, PredictionFailed("'NoneType' object has no attribute 'predict'"))
       ELSE \E o \in outcomes :
              inflight' = [inflight EXCEPT
                  ![s].scored = o,
                  ![s].pc = IF o.k = "raise" THEN "done" ELSE "assemble",
                  ![s].resp = IF o.k = "raise"
                              THEN PredictionFailed("scorer raised")
                              ELSE NoResponse]
    /\ UNCHANGED <<phase, load_outcome, best_model>>

\* the rest of the try block
PredictFinish(s) ==
    /\ inflight[s].pc = "assemble"
    /\ Done(s, predict_assemble(inflight[s].data, inflight[s].scored.v))
    /\ UNCHANGED <<phase, load_outcome, best_model>>

Analyze(s) ==
    /\ inflight[s].pc = "handler"
    /\ inflight[s].op = "analyze"
    /\ Done(s, analyze_student_behavior(inflight[s].data))
    /\ UNCHANGED <<phase, load_outcome, best_model>>

Health(s) ==
    /\ inflight[s].pc = "received"
    /\ inflight[s].op = "health"
    /\ Done(s, health_check(best_model))
    /\ UNCHANGED <<phase, load_outcome, best_model>>

\* the response is sent and the request is over
Respond(s) ==
    /\ inflight[s].pc = "done"
    /\ inflight' = [inflight EXCEPT ![s] = Idle]
    /\ UNCHANGED <<phase, load_outcome, best_model>>

Next ==
    \/ \E obj \in PickleObjects : Startup(obj)
    \/ StartupFails
    \/ Shutdown
    \/ \E s \in Slots, r \in Requests : Arrive(s, r)
    \/ \E s \in Slots : Validate(s)
    \/ \E s \in Slots : PredictBegin(s)
    \/ \E s \in Slots : PredictScore(s, ServerOutcomes)
    \/ \E s \in Slots : PredictFinish(s)
    \/ \E s \in Slots : Analyze(s)
    \/ \E s \in Slots : Health(s)
    \/ \E s \in Slots : Respond(s)

Spec == Init /\ [][Next]_vars

\* ------------------------------------------------- one request, every input

\* a serving process with one request received
Received(r) ==
    /\ phase = "serving"
    /\ load_outcome \in PickleObjects
    /\ best_model = load_outcome
    /\ inflight = [s \in Slots |-> IF s = 1 THEN r ELSE Idle]

\* the fields the learner profile reads, with the other two fixed
InitProfileGrid ==
    \E op \in {"analyze", "predict"} :
    \E h \in HintValues, bh \in BottomValues, a \in AttemptValues,
       du \in DurationValues, fr \in FrustratedValues, cf \in ConfusedValues,
       cc \in ConcentratingValues :
        Received(Request(op, Data(h, bh, a, Fin(500, 1), du, fr, cf, cc, Fin(25, 100))))

\* the fields the behavior tags read, with the other two fixed
InitTagGrid ==
    \E h \in HintValues, a \in AttemptValues, ms \in MsValues,
       fr \in FrustratedValues, cf \in ConfusedValues,
       cc \in ConcentratingValues, bo \in BoredValues :
        Received(Request("analyze", Data(h, Zero, a, ms, Fin(1000, 1), fr, cf, cc, bo)))

\* the counts and the response time, with the confidences fixed
InitCountGrid ==
    \E h \in HintValues, a \in AttemptValues, ms \in MsValues, bo \in BoredValues :
        Received(Request("predict",
                         Data(h, Zero, a, ms, Fin(1000, 1), Zero, Zero, Fin(75, 100), bo)))

InitGrid ==
    \/ InitProfileGrid
    \/ InitTagGrid
    \/ InitCountGrid
    \/ \E r \in Requests : Received(r)

NextGrid ==
    \/ \E s \in Slots : Validate(s)
    \/ \E s \in Slots : PredictBegin(s)
    \/ \E s \in Slots : PredictScore(s, ServerOutcomes)
    \/ \E s \in Slots : PredictFinish(s)
    \/ \E s \in Slots : Analyze(s)
    \/ \E s \in Slots : Health(s)

SpecGrid == InitGrid /\ [][NextGrid]_vars

\* ------------------------------------------- two predictions, every score

\* a serving process with a scorer and two predict requests received
InitScores ==
    /\ phase = "serving"
    /\ load_outcome = "Scorer"
    /\ best_model = "Scorer"
    /\ \E d \in {TypicalInput, FocusedInput} :
         inflight = [s \in Slots |->
                       IF s = 1 THEN Request("predict", d)
                       ELSE IF s = 2 THEN Request("predict", TypicalInput)
                       ELSE Idle]

NextScores ==
    \/ \E s \in Slots : Validate(s)
    \/ \E s \in Slots : PredictBegin(s)
    \/ \E s \in Slots : PredictScore(s, ScoreOutcomes)
    \/ \E s \in Slots : PredictFinish(s)

SpecScores == InitScores /\ [][NextScores]_vars

\* ======================================================================
\* Properties
\* ======================================================================

Predicts == {s \in Slots : inflight[s].op = "predict" /\ ValidInput(inflight[s].data)}
Analyzes == {s \in Slots : inflight[s].op = "analyze" /\ ValidInput(inflight[s].data)}
IsDone(s) == inflight[s].pc = "done"
Succeeded(s) == IsDone(s) /\ inflight[s].resp.status = 200

\* C1: a predict request with a valid body, served while best_model is None,
\* ends with the "Model not loaded" error: it never reaches the scorer call or
\* the assembly, the scorer is not invoked, and the error is neither a
\* "Prediction failed" error nor a success.
C1_ScorerUnavailable ==
    \A s \in Predicts :
        best_model = "None" =>
            /\ inflight[s].pc \in {"received", "handler", "done"}
            /\ inflight[s].scored = NoOutcome
            /\ IsDone(s) => inflight[s].resp = ModelNotLoaded

C1_Witness ==
    \E s \in Predicts :
        /\ best_model = "None"
        /\ IsDone(s)
        /\ inflight[s].resp.detail = "Model not loaded"

\* C2: with a scorer loaded, a predict request whose scorer call raises, or
\* whose response cannot be assembled, ends with a "Prediction failed" error
\* carrying the cause and no content; no exception leaves the handler.
C2_PredictionFailed ==
    \A s \in Predicts :
        best_model # "None" =>
            /\ inflight[s].scored.k = "raise" =>
                   /\ IsDone(s)
                   /\ inflight[s].resp = PredictionFailed("scorer raised")
            /\ (IsDone(s) /\ inflight[s].scored.k = "return"
                          /\ ~IsFinite(inflight[s].scored.v)) =>
                   inflight[s].resp = PredictionFailed(OutOfRange)
            /\ (IsDone(s) /\ ~Succeeded(s)) =>
                   /\ inflight[s].resp.detail = "Prediction failed: "
                   /\ inflight[s].resp.cause # ""
                   /\ inflight[s].resp.content = NoContent
            /\ Succeeded(s) =>
                   /\ inflight[s].scored.k = "return"
                   /\ inflight[s].resp.content.kind = "prediction"

C2_Witness ==
    \E s \in Predicts :
        /\ inflight[s].scored.k = "raise"
        /\ inflight[s].resp.detail = "Prediction failed: "

\* C3: every analyze request with a valid body succeeds, whatever the process
\* state: it answers 200 with the profile, the 7 tags and the 6 metrics.
C3_AnalyzeAlwaysSucceeds ==
    \A s \in Analyzes :
        IsDone(s) =>
            /\ inflight[s].resp.status = 200
            /\ inflight[s].resp.content.kind = "analysis"

\* C4: the category of a score.  Bucket i of the partition
\* <0.30, [0.30,0.45), [0.45,0.60), [0.60,0.75), [0.75,0.90), >=0.90.
Boundaries == <<30, 45, 60, 75, 90>>

InBucket(i, v) ==
    /\ i = 0 \/ FGe(v, Fin(Boundaries[i], 100))
    /\ i = 5 \/ FLt(v, Fin(Boundaries[i + 1], 100))

Scored == {s \in Predicts : Succeeded(s)}
ScoreOf(s) == inflight[s].scored.v
CategoryOf(s) == inflight[s].resp.content.prediction.category_number

\* C4: every score falls in exactly one of the 6 buckets and gets that
\* bucket's ordinal: a boundary value goes to the upper bucket (0.9 is 5,
\* "Outstanding"), a score below 0 to 0, a score above 1 to 5, and a larger
\* score never gets a smaller ordinal.
C4_CategoryPartition ==
    \A s \in Scored :
        /\ CategoryOf(s) \in 0..5
        /\ {i \in 0..5 : InBucket(i, ScoreOf(s))} = {CategoryOf(s)}
        /\ \A i \in 1..5 : FEq(ScoreOf(s), Fin(Boundaries[i], 100)) => CategoryOf(s) = i
        /\ FEq(ScoreOf(s), Fin(90, 100)) =>
               inflight[s].resp.content.prediction.performance_category = "Outstanding"
        /\ FLt(ScoreOf(s), Zero) => CategoryOf(s) = 0
        /\ FGt(ScoreOf(s), One) => CategoryOf(s) = 5
        /\ \A t \in Scored :
               FLe(ScoreOf(s), ScoreOf(t)) => CategoryOf(s) <= CategoryOf(t)

C4_Witness ==
    \E s, t \in Scored :
        /\ FEq(ScoreOf(s), Fin(90, 100)) /\ CategoryOf(s) = 5
        /\ FEq(ScoreOf(t), Fin(89, 100)) /\ CategoryOf(t) = 4

\* C5: the four rules of the learner profile, as the claim states them
Rule1(d) ==
    /\ FLt(d.duration, Fin(1800, 1))
    /\ FLt(d.attempt_count, Fin(3, 1))
    /\ FLt(d.avg_conf_concentrating, Fin(1, 2))
    /\ FGt(d.avg_conf_frustrated, Fin(3, 10))

Rule2(d) ==
    /\ FGt(d.duration, Fin(1800, 1))
    /\ FLt(d.hint_count, Fin(5, 1))
    /\ FGt(d.avg_conf_concentrating, Fin(6, 10))
    /\ FGt(efficiency_indicator(d), Fin(6, 10))

Rule3(d) ==
    /\ FGt(d.hint_count, Fin(6, 1))
    /\ FGt(d.avg_conf_confused, Fin(3, 10))
    /\ FGt(d.bottom_hint, Fin(5, 1))
    /\ FLt(confidence_balance(d), Fin(4, 10))

Rule4(d) ==
    /\ FGt(d.avg_conf_concentrating, Fin(6, 10))
    /\ FGt(confidence_balance(d), Fin(6, 10))
    /\ FLt(hint_dependency(d), Fin(3, 10))
    /\ FGt(efficiency_indicator(d), Fin(6, 10))

FirstRule(d) ==
    IF Rule1(d) THEN 1 ELSE IF Rule2(d) THEN 2 ELSE IF Rule3(d) THEN 3
    ELSE IF Rule4(d) THEN 4 ELSE 0

Labels == <<"Fast but Careless", "Slow and Careful", "Confused Learner", "Focused Performer">>

ProfileByRules(d) ==
    IF FirstRule(d) = 0 THEN "General Learner" ELSE Labels[FirstRule(d)]

Answered == {s \in Slots : ValidInput(inflight[s].data) /\ Succeeded(s)
                            /\ inflight[s].op \in {"predict", "analyze"}}
ProfileOf(s) == inflight[s].resp.content.learner_profile

\* C5: the profile of a response is the label of the first rule that holds,
\* in the order 1..4, and "General Learner" when none holds: rules 1 and 3
\* together give rule 1's label, rules 2 and 4 together rule 2's, and a
\* duration of exactly 1800 gets neither rule 1's nor rule 2's label.
C5_ProfilePriority ==
    /\ \A s \in Predicts \cup Analyzes :
           generate_learner_profile(inflight[s].data) = ProfileByRules(inflight[s].data)
    /\ \A s \in Answered :
        LET d == inflight[s].data IN
        /\ ProfileOf(s) = ProfileByRules(d)
        /\ (Rule1(d) /\ Rule3(d)) => ProfileOf(s) = "Fast but Careless"
        /\ (Rule2(d) /\ Rule4(d)) => ProfileOf(s) = "Slow and Careful"
        /\ FEq(d.duration, Fin(1800, 1)) =>
               ProfileOf(s) \notin {"Fast but Careless", "Slow and Careful"}

C5_Witness ==
    \E s \in Answered :
        /\ Rule1(inflight[s].data)
        /\ Rule3(inflight[s].data)
        /\ ProfileOf(s) = "Fast but Careless"

\* C6: the same request, with the same scorer outcome, gets the same response
\* whatever else is or was in flight
SameRequestSameResponse ==
    \A s, t \in Slots :
        ( /\ IsDone(s) /\ IsDone(t)
          /\ inflight[s].op = inflight[t].op
          /\ inflight[s].data = inflight[t].data
          /\ inflight[s].scored = inflight[t].scored )
        => inflight[s].resp = inflight[t].resp

\* C6: no request step writes the process state: best_model (and the load
\* outcome) change only in the startup step, whatever the requests in flight
\* do and however they end; so a request's response depends on nothing but
\* the request and its scorer outcome.
C6_RequestsLeaveStateAlone ==
    /\ []SameRequestSameResponse
    /\ [][ (best_model' # best_model \/ load_outcome' # load_outcome)
             => (phase = "starting" /\ \A s \in Slots : inflight[s] = Idle) ]_vars

C6_Witness ==
    \E s, t \in Slots :
        /\ best_model = "Scorer"
        /\ IsDone(s) /\ inflight[s].resp.detail = "Prediction failed: "
        /\ IsDone(t) /\ inflight[t].resp.status = 200
        /\ inflight[t].op = "predict"

\* C7: the divisors of the computed fields
Validated == {s \in Predicts \cup Analyzes : inflight[s].pc # "received"}

\* C7: for a valid body action_count is attempt_count + hint_count, the
\* divisors attempt_count + 1, ms_first_response + 1 and avg_conf_bored + 1e-6
\* are positive, no computed field divides by zero, and with no attempt and no
\* hint hint_dependency and efficiency_indicator are 0.
C7_NoDivisionByZero ==
    \A s \in Validated :
        LET d == inflight[s].data IN
        /\ action_count(d) = FAdd(d.attempt_count, d.hint_count)
        /\ FGt(attempts_plus_one(d), Zero)
        /\ FGt(first_response_plus_one(d), Zero)
        /\ FGt(bored_plus_epsilon(d), Zero)
        /\ ~DivisionRaises(d)
        /\ IsDone(s) => inflight[s].resp.cause # "float division by zero"
        /\ (IsZero(d.attempt_count) /\ IsZero(d.hint_count)) =>
               /\ hint_dependency(d) = Zero
               /\ efficiency_indicator(d) = Zero
        /\ (Succeeded(s) /\ inflight[s].op = "analyze") =>
               inflight[s].resp.content.computed_metrics.action_count
                   = FAdd(d.attempt_count, d.hint_count)

C7_Witness ==
    \E s \in Validated :
        /\ inflight[s].op = "analyze"
        /\ Succeeded(s)
        /\ IsZero(inflight[s].data.attempt_count)
        /\ IsZero(inflight[s].data.hint_count)
        /\ inflight[s].resp.content.computed_metrics.hint_dependency = Zero
        /\ inflight[s].resp.content.computed_metrics.efficiency_indicator = Zero

\* C8: a ladder of two strict thresholds
Ladder(x, upper, lower, top, mid, bottom) ==
    IF FGt(x, upper) THEN top ELSE IF FGt(x, lower) THEN mid ELSE bottom

TagKeys ==
    {"engagement", "hint_dependency", "efficiency", "response_speed",
     "confidence_balance", "persistence", "overall_activity"}

Analyzed == {s \in Analyzes : Succeeded(s)}
TagsOf(s) == inflight[s].resp.content.behaviors

\* C8: each of the 7 tags of an analysis comes from its own input by its own
\* ladder of strict thresholds, so a value on a threshold gets the lower level,
\* and the map has exactly the 7 keys.
C8_BehaviorTags ==
    \A s \in Analyzed :
        LET d == inflight[s].data
            b == TagsOf(s)
        IN
        /\ DOMAIN b = TagKeys
        /\ b.engagement =
               Ladder(engagement_ratio(d), Fin(2, 1), Fin(1, 1), "High", "Moderate", "Low")
        /\ b.hint_dependency =
               Ladder(hint_dependency(d), Fin(7, 10), Fin(3, 10), "High", "Moderate", "Low")
        /\ b.efficiency =
               Ladder(efficiency_indicator(d), Fin(1, 1), Fin(1, 2), "High", "Moderate", "Low")
        /\ b.response_speed =
               Ladder(response_speed(d), Fin(5, 100), Fin(1, 100), "Fast", "Moderate", "Slow")
        /\ b.confidence_balance =
               Ladder(confidence_balance(d), Fin(2, 10), Fin(-2, 10),
                      "Positive", "Neutral", "Negative")
        /\ b.persistence =
               Ladder(d.attempt_count, Fin(5, 1), Fin(2, 1), "High", "Moderate", "Low")
        /\ b.overall_activity =
               IF FEq(action_count(d), Zero) THEN "None"
               ELSE IF FEq(action_count(d), One) THEN "Minimal"
               ELSE "Active"

\* a value on each upper threshold at once
C8_Witness ==
    \E s \in Analyzed :
        LET d == inflight[s].data IN
        /\ FEq(efficiency_indicator(d), One) /\ TagsOf(s).efficiency = "Moderate"
        /\ FEq(response_speed(d), Fin(5, 100)) /\ TagsOf(s).response_speed = "Moderate"
        /\ FEq(confidence_balance(d), Fin(2, 10)) /\ TagsOf(s).confidence_balance = "Neutral"

\* C9: a successful prediction carries the profile, the tags and the six
\* derived values that the analysis of the same body returns.
C9_PredictMatchesAnalyze ==
    \A s \in Scored :
        LET analysis == analyze_student_behavior(inflight[s].data)
            content == inflight[s].resp.content
        IN
        /\ analysis.status = 200
        /\ content.learner_profile = analysis.content.learner_profile
        /\ content.behaviors = analysis.content.behaviors
        /\ content.raw_metrics = analysis.content.computed_metrics

C9_Witness ==
    \E s \in Scored :
        /\ inflight[s].resp.content.behaviors.persistence = "High"
        /\ inflight[s].resp.content.behaviors.overall_activity = "Active"
        /\ inflight[s].resp.content.learner_profile = "Focused Performer"

\* C10 as stated: whenever a request is served the scorer is loaded
C10_ScorerAlwaysLoaded ==
    /\ phase = "serving" => best_model # "None"
    /\ \A s \in Slots :
           inflight[s] # Idle =>
               /\ best_model # "None"
               /\ inflight[s].resp # ModelNotLoaded
               /\ (IsDone(s) /\ inflight[s].op = "health") =>
                      inflight[s].resp.content.model_loaded

\* C10: the load precedes every request and a load that raises ends the
\* process before it serves; while requests are served best_model is the
\* object the model file unpickled to, so health reports model_loaded and
\* "Model not loaded" is out of reach exactly when that object is not None.
C10_LoadBeforeServing ==
    /\ phase \in {"starting", "aborted"} =>
           /\ best_model = "None"
           /\ \A s \in Slots : inflight[s] = Idle
    /\ load_outcome = "raised" <=> phase = "aborted"
    /\ load_outcome = "pending" <=> phase = "starting"
    /\ phase \in {"serving", "stopped"} =>
           /\ load_outcome \in PickleObjects
           /\ best_model = load_outcome
    /\ \A s \in Slots :
           /\ (IsDone(s) /\ inflight[s].op = "health") =>
                  inflight[s].resp.content.model_loaded = (load_outcome # "None")
           /\ inflight[s].resp = ModelNotLoaded => load_outcome = "None"
           /\ (IsDone(s) /\ inflight[s].op = "predict" /\ ValidInput(inflight[s].data)
                         /\ load_outcome = "None") =>
                  inflight[s].resp = ModelNotLoaded

C10_Witness ==
    \E s \in Slots :
        /\ load_outcome = "Scorer"
        /\ IsDone(s)
        /\ inflight[s].op = "health"
        /\ inflight[s].resp.content.model_loaded

====
